---- MODULE Spec2Model ----
(***************************************************************************)
(* Model of muxic's duplicate-detection engine: cmd/dedup.go (runDedup)    *)
(* and pkg/dedup (LoadCache, SaveCache, GenerateSignature, UpdateEntry).   *)
(*                                                                         *)
(* Paths and signatures are byte strings; they are modelled as sequences   *)
(* of byte codes so that len(), < and sort behave as they do on Go         *)
(* strings.  A file's content is an abstract content id; SHA-256 is        *)
(* modelled as an injective map from content ids to 64-digit hex strings.  *)
(***************************************************************************)
EXTENDS Integers, Sequences, FiniteSets, TLC

\* ------------------------------------------------------------------ bounds
\* number of consecutive runs of runDedup that are explored
MaxRuns == 2
\* number of distinct file contents
NumContents == 2

\* ------------------------------------------------------------- constants
\* hex.EncodeToString of a SHA-256 sum: 64 hex digits
DigestLen == 64

\* The media paths of the target directory (all carry a recognised
\* extension, which is left out of the byte codes): "b", "aa", "ab", "ba".
Paths == { <<2>>, <<1, 1>>, <<1, 2>>, <<2, 1>> }

Contents == 1..NumContents
\* modification times in seconds: live files carry 1, a stored time may be older
ModTimes == {0, 1}

\* len(content) in bytes: distinct contents may differ in size
SizeOf(c) == 1 + (c % 2)

\* ------------------------------------------------------------ strings
Min(a, b) == IF a < b THEN a ELSE b

\* Go's < on strings: bytewise lexicographic, a proper prefix is smaller
StrLess(a, b) ==
    \E k \in 1..(Min(Len(a), Len(b)) + 1) :
        /\ \A j \in 1..(k - 1) : a[j] = b[j]
        /\ \/ k > Len(a) /\ k <= Len(b)
           \/ k <= Len(a) /\ k <= Len(b) /\ a[k] < b[k]

\* a comparator that forgets the length rule (lexicographic only)
FilesLessLexOnly(a, b) == StrLess(a, b)

\* the less function handed to sort.Slice: shorter paths first, then by name
FilesLess(a, b) ==
    IF Len(a) # Len(b) THEN Len(a) < Len(b) ELSE StrLess(a, b)

RECURSIVE Insert(_, _)
Insert(x, s) ==
    IF s = <<>> THEN <<x>>
    ELSE IF FilesLess(x, Head(s)) THEN <<x>> \o s
    ELSE <<Head(s)>> \o Insert(x, Tail(s))

\* sort.Slice(files, less): the order is total on distinct paths, so the
\* result is the one sorted permutation
RECURSIVE SortFiles(_)
SortFiles(s) == IF s = <<>> THEN <<>> ELSE Insert(Head(s), SortFiles(Tail(s)))

\* a sort that puts the greatest signature first
SetToSortedSigsDescending(S) ==
    CHOOSE f \in [1..Cardinality(S) -> S] :
        \A i, j \in 1..Cardinality(S) : i < j => StrLess(f[j], f[i])

\* dedup.go 109: sort.Strings(sigs), ascending in Go's string order
RECURSIVE SetToSortedSigs(_)
SetToSortedSigs(S) ==
    IF S = {} THEN <<>>
    ELSE LET m == CHOOSE x \in S : \A y \in S \ {x} : StrLess(x, y)
         IN  <<m>> \o SetToSortedSigs(S \ {m})

Range(s) == { s[i] : i \in DOMAIN s }

\* ------------------------------------------------------------ pkg/dedup
\* sha256 + hex: injective in the content, 64 hex digits
Digest(c) == [i \in 1..DigestLen |-> (7 * c * i) % 16]

EmptyCache == [p \in {} |-> 0]

FileEntry(sig, mt, sz) == [Signature |-> sig, ModTime |-> mt, Size |-> sz]

VARIABLES
    disk,            \* the file tree: existing path -> [content, modTime, readable]
    cacheFile,       \* ~/.muxic/dedup_cache.json: [state, data]
    cache,           \* the Store of the running runDedup
    filesBySig,      \* signature -> list of paths
    todo,            \* media files the walk has not delivered yet
    pc,              \* position of runDedup
    scorchedEarth,   \* the mode flag of the run
    sigs,            \* sorted signatures with more than one path
    setIdx,          \* position of the `for _, sig := range sigs` loop (1-based)
    files,           \* the sorted paths of the current set
    keepIndex,       \* -1, or the 0-based index of the survivor
    delIdx,          \* position of the deletion loop (0-based i)
    duplicatesFound,
    bytesSaved,
    report,          \* the summary line written at the end of the run
    retErr,          \* what runDedup returned
    runs,            \* completed runs
    runLimit,        \* number of runs the operator starts
    walkOrder,       \* "lexical" (filepath.Walk) or "any" directory order
    unwalkable,      \* the tree holds a directory the walk cannot read
    stdinEnds,       \* the input stream is one that ends (a file, a pipe)
    stdinOpen,       \* the input stream has not reported its end yet
    \* ---- observation of the run (not read by the program)
    ret,             \* the last UpdateEntry call and what it returned
    hashed,          \* paths GenerateSignature was invoked on in this run
    removed,         \* paths whose os.Remove succeeded in this run
    failed,          \* paths whose os.Remove failed in this run
    kept,            \* survivor path of every set resolved with a survivor
    sizeRemoved,     \* sum of the Store-recorded sizes of the removed paths
    pruned,          \* the pruning loop ran in this run
    saved,           \* "none", or the line printed after SaveCache in this
                     \* run: "ok" (Cache saved.) or "err" (Error saving cache)
    prev,            \* facts about the previous run
    loaded,          \* state of the cache file LoadCache met in this run
    line,            \* the trimmed line the prompt loop has just read
                     \* (empty outside the prompt loop)
    others,          \* what exists beside the media files of the target
                     \* directory: path -> [kind, inTarget, content, modTime,
                     \* readable]
    cacheNil,        \* the Store of the run is a nil map
    figures,         \* the figures printed in the summary line
    \* ---- concurrent callers of UpdateEntry that share a mutex
    mu,              \* 0 when unlocked, else the caller that holds it
    calls            \* caller -> [pc, path, exists, entry, sig]

vars == << disk, cacheFile, cache, filesBySig, todo, pc, scorchedEarth, sigs,
           setIdx, files, keepIndex, delIdx, duplicatesFound, bytesSaved,
           report, retErr, runs, runLimit, walkOrder, ret, hashed,
           removed, failed, kept, sizeRemoved, pruned, saved, prev,
           unwalkable, stdinEnds, stdinOpen, loaded, line, others, cacheNil,
           figures, mu, calls >>

\* ------------------------------------------------------------ the tree
\* the media files of the target are in disk; directories, files with
\* another extension and files outside the target are in others
File(p) == IF p \in DOMAIN disk THEN disk[p] ELSE others[p]

\* os.Stat(path) finds the path
Exists(p) == p \in DOMAIN disk \/ p \in DOMAIN others

\* os.Remove(path)
RemovePath(m, p) == [q \in (DOMAIN m) \ {p} |-> m[q]]

\* the paths are written without the last part of their name, which is, in
\* ASCII: "b.MP3", "aa.mp3", "ab.m4a", "ba.Wav", "c.mp4", "d.mp3", "e.flac".
\* The parts of the media files have one length and start with a byte
\* below the letters, so the order of the paths is that of the full names.
Suffix(p) ==
    CASE p = <<2>>    -> <<46, 77, 80, 51>>
      [] p = <<1, 1>> -> <<46, 109, 112, 51>>
      [] p = <<1, 2>> -> <<46, 109, 52, 97>>
      [] p = <<2, 1>> -> <<46, 87, 97, 118>>
      [] p = <<3>>    -> <<46, 109, 112, 52>>
      [] p = <<4>>    -> <<46, 109, 112, 51>>
      [] OTHER        -> <<46, 102, 108, 97, 99>>

PathString(p) == p \o Suffix(p)

\* filepath.Ext: the suffix that starts at the last dot, "" without a dot
Ext(s) ==
    LET dots == { i \in DOMAIN s : s[i] = 46 } IN
      IF dots = {} THEN <<>>
      ELSE SubSeq(s, CHOOSE i \in dots : \A j \in dots : j <= i, Len(s))

\* strings.ToLower on ASCII
ToLower(s) == [i \in DOMAIN s |-> IF s[i] \in 65..90 THEN s[i] + 32 ELSE s[i]]

\* ".mp3", ".flac", ".m4a", ".wav"
MediaExts == { <<46, 109, 112, 51>>, <<46, 102, 108, 97, 99>>,
               <<46, 109, 52, 97>>, <<46, 119, 97, 118>> }

\* an extension check that lets every file through
IsMediaAny(p) == TRUE

\* dedup.go 74-77: ext := strings.ToLower(filepath.Ext(path)) is one of four
IsMedia(p) == ToLower(Ext(PathString(p))) \in MediaExts

\* dedup.go 69: info.IsDir()
IsDir(p) == p \in DOMAIN others /\ others[p].kind = "dir"

\* os.FileInfo of an existing path
Info(p) == [ModTime |-> File(p).modTime, Size |-> SizeOf(File(p).content)]

\* a loader that hands out an entry for "b" when there is nothing to load
LoadCacheLeftover(cf) ==
    IF cf.state = "valid"
    THEN [cache |-> cf.data, err |-> FALSE, isNil |-> FALSE]
    ELSE [cache |-> [q \in {<<2>>} |-> FileEntry(Digest(1), 1, SizeOf(1))],
          err |-> FALSE, isNil |-> FALSE]

\* LoadCache: a missing file and a file that does not decode give an empty
\* cache and no error; a file that cannot be opened gives an error and no
\* map. The map handed to Decode is declared and not made (part_007 35-36):
\* a file that holds the JSON value null decodes without error and leaves
\* it nil.
LoadCache(cf) ==
    IF cf.state = "missing"
    THEN [cache |-> EmptyCache, err |-> FALSE, isNil |-> FALSE]
    ELSE IF cf.state = "unopenable"
    THEN [cache |-> EmptyCache, err |-> TRUE, isNil |-> TRUE]
    ELSE IF cf.state = "corrupt"
    THEN [cache |-> EmptyCache, err |-> FALSE, isNil |-> FALSE]
    ELSE IF cf.state = "null"
    THEN [cache |-> EmptyCache, err |-> FALSE, isNil |-> TRUE]
    ELSE [cache |-> cf.data, err |-> FALSE, isNil |-> FALSE]

\* GenerateSignature: open, stream into sha256, hex
GenerateSignature(p) ==
    IF Exists(p) /\ File(p).readable
    THEN [sig |-> Digest(File(p).content), err |-> FALSE]
    ELSE [sig |-> <<>>, err |-> TRUE]

\* map assignment cache[path] = entry
Put(c, p, e) == [q \in (DOMAIN c) \cup {p} |-> IF q = p THEN e ELSE c[q]]

\* a removal that leaves the Store entry behind
DeleteNothing(c, p) == c

\* delete(cache, path)
Delete(c, p) == [q \in (DOMAIN c) \ {p} |-> c[q]]

\* a freshness test that never trusts the Store
IsFreshNever(c, p, info) == FALSE

\* a freshness test that ignores the size
IsFreshNoSize(c, p, info) ==
    /\ p \in DOMAIN c
    /\ c[p].ModTime = info.ModTime

\* the freshness test of UpdateEntry
IsFresh(c, p, info) ==
    /\ p \in DOMAIN c
    /\ c[p].ModTime = info.ModTime
    /\ c[p].Size = info.Size

\* an UpdateEntry that returns the new signature without storing it
UpdateEntryNoStore(p, info, c) ==
    IF IsFresh(c, p, info)
    THEN [sig |-> c[p].Signature, updated |-> FALSE, err |-> FALSE,
          cache |-> c, signed |-> FALSE]
    ELSE LET g == GenerateSignature(p) IN
         [sig |-> g.sig, updated |-> ~g.err, err |-> g.err, cache |-> c,
          signed |-> TRUE]

\* an UpdateEntry that drops the path's entry when signing fails
UpdateEntryDropOnError(p, info, c) ==
    IF IsFresh(c, p, info)
    THEN [sig |-> c[p].Signature, updated |-> FALSE, err |-> FALSE,
          cache |-> c, signed |-> FALSE]
    ELSE LET g == GenerateSignature(p) IN
         IF g.err
         THEN [sig |-> <<>>, updated |-> FALSE, err |-> TRUE,
               cache |-> Delete(c, p), signed |-> TRUE]
         ELSE [sig |-> g.sig, updated |-> TRUE, err |-> FALSE,
               cache |-> Put(c, p, FileEntry(g.sig, info.ModTime, info.Size)),
               signed |-> TRUE]

\* UpdateEntry with mu = nil: the result and the cache it leaves
UpdateEntry(p, info, c) ==
    IF IsFresh(c, p, info)
    THEN [sig |-> c[p].Signature, updated |-> FALSE, err |-> FALSE,
          cache |-> c, signed |-> FALSE]
    ELSE LET g == GenerateSignature(p) IN
         IF g.err
         THEN [sig |-> <<>>, updated |-> FALSE, err |-> TRUE,
               cache |-> c, signed |-> TRUE]
         ELSE [sig |-> g.sig, updated |-> TRUE, err |-> FALSE,
               cache |-> Put(c, p, FileEntry(g.sig, info.ModTime, info.Size)),
               signed |-> TRUE]

\* ------------------------------------------------------------------ Init
\* the media file of the tree that may be unreadable (permission denied)
MaybeUnreadable == { <<1, 1>> }

\* the media files that may be missing from the tree
MaybeAbsent == { <<1, 2>>, <<2, 1>> }

\* the path of the tree the cache file may hold an entry of any shape for
\* before the first run
MaybeCached == { <<1, 1>> }

\* the path the cache file may hold an old entry for; when the path is
\* missing from the tree, its file was removed outside the tool
MaybeGone == { <<1, 2>> }

FileStates == [content : Contents, modTime : {1}, readable : BOOLEAN]

InitDisks ==
    { d \in UNION { [Paths \ A -> FileStates] : A \in SUBSET MaybeAbsent } :
        \A p \in DOMAIN d : ~d[p].readable => p \in MaybeUnreadable }

InitEntries ==
    [Signature : { Digest(c) : c \in Contents }, ModTime : ModTimes,
     Size : { SizeOf(c) : c \in Contents }]

\* the JSON object of a decodable cache file: empty, or one entry
InitCaches ==
    {EmptyCache}
    \cup UNION { [{p} -> InitEntries] : p \in MaybeCached }
    \cup { [q \in {p} |-> FileEntry(Digest(1), 0, SizeOf(1))] : p \in MaybeGone }

\* the cache file before the first run: missing, not decodable, not
\* openable, or a JSON object
InitCacheFiles ==
    { [state |-> st, data |-> EmptyCache] :
        st \in {"missing", "corrupt", "unopenable"} }
    \cup { [state |-> "valid", data |-> c] : c \in InitCaches }

NoRet == [path |-> <<>>, sig |-> <<>>, updated |-> FALSE, err |-> FALSE,
          signed |-> FALSE]

NoPrev == [ran |-> FALSE, auto |-> FALSE, clean |-> FALSE, saved |-> FALSE,
           resolved |-> {}, removed |-> {}]

\* bound: number of goroutines that call UpdateEntry with one mutex
NumCallers == 2

Callers == 1..NumCallers

IdleCall == [pc |-> "idle", path |-> <<>>, exists |-> FALSE,
             entry |-> FileEntry(<<>>, 0, 0), sig |-> <<>>]

NoCalls == [g \in Callers |-> IdleCall]

NoOthers == [p \in {} |-> 0]

\* what the walk meets besides media files: "c.mp4", a file with the
\* content of a media file, and a directory "d.mp3" (reading it as a file
\* fails); "e.flac" is a file outside the target
Extras ==
    [p \in { <<3>>, <<4>>, <<5>> } |->
        IF p = <<3>>
        THEN [kind |-> "file", inTarget |-> TRUE, content |-> 1,
              modTime |-> 1, readable |-> TRUE]
        ELSE IF p = <<4>>
        THEN [kind |-> "dir", inTarget |-> TRUE, content |-> 2,
              modTime |-> 1, readable |-> FALSE]
        ELSE [kind |-> "file", inTarget |-> FALSE, content |-> 1,
              modTime |-> 1, readable |-> TRUE]]

\* a cache file written by earlier runs on other targets: entries for
\* "c.mp4", for "e.flac", for a path outside the target that is gone (<<6>>)
\* and for "aa"
TreeCache ==
    [p \in { <<3>>, <<5>>, <<6>>, <<1, 1>> } |->
        FileEntry(Digest(1), 1, SizeOf(1))]

InitRun ==
    /\ cache = EmptyCache
    /\ filesBySig = EmptyCache
    /\ todo = {}
    /\ pc = "idle"
    /\ scorchedEarth = FALSE
    /\ sigs = <<>>
    /\ setIdx = 0
    /\ files = <<>>
    /\ keepIndex = -1
    /\ delIdx = 0
    /\ duplicatesFound = 0
    /\ bytesSaved = 0
    /\ report = "none"
    /\ retErr = "none"
    /\ runs = 0
    /\ ret = NoRet
    /\ hashed = {}
    /\ removed = {}
    /\ failed = {}
    /\ kept = {}
    /\ sizeRemoved = 0
    /\ pruned = FALSE
    /\ saved = "none"
    /\ prev = NoPrev
    /\ unwalkable \in BOOLEAN
    /\ stdinOpen = TRUE
    /\ loaded = "none"
    /\ cacheNil = FALSE
    /\ figures = <<>>
    /\ mu = 0
    /\ calls = NoCalls
    /\ line = <<>>

\* one run at a terminal, from any tree and any cache file of the bounded
\* shapes
Init ==
    /\ disk \in InitDisks
    /\ cacheFile \in InitCacheFiles
    /\ runLimit = 1
    /\ walkOrder = "lexical"
    /\ stdinEnds = FALSE
    /\ others = NoOthers
    /\ InitRun

\* one run over a tree whose directory entries arrive in any order
InitAnyOrder ==
    /\ disk \in InitDisks
    /\ cacheFile = [state |-> "missing", data |-> EmptyCache]
    /\ runLimit = 1
    /\ walkOrder = "any"
    /\ stdinEnds \in BOOLEAN
    /\ others = NoOthers
    /\ InitRun

\* MaxRuns runs in a row, first run without a cache file
InitTwice ==
    /\ disk \in InitDisks
    /\ cacheFile = [state |-> "missing", data |-> EmptyCache]
    /\ runLimit = MaxRuns
    /\ walkOrder = "lexical"
    /\ stdinEnds = FALSE
    /\ others = NoOthers
    /\ InitRun

\* ------------------------------------------------------------ runDedup
\* the paths the scan gave a signature, by signature
PathsOf(sig) == IF sig \in DOMAIN filesBySig THEN Range(filesBySig[sig]) ELSE {}

Grouped == UNION { Range(filesBySig[s]) : s \in DOMAIN filesBySig }

\* dedup.go 46-63: load the Store, start the walk
StartRun ==
    /\ pc \in {"idle", "done", "failed", "panic"}
    /\ runs < runLimit
    /\ \E mode \in BOOLEAN : scorchedEarth' = mode
    /\ prev' = [ran |-> pc = "done", auto |-> pc = "done" /\ scorchedEarth,
                clean |-> failed = {}, saved |-> saved = "ok",
                resolved |-> Grouped, removed |-> removed]
    /\ LET l == LoadCache(cacheFile) IN
         /\ cache' = IF l.err THEN EmptyCache ELSE l.cache
         /\ cacheNil' = IF l.err THEN FALSE ELSE l.isNil
    /\ loaded' = cacheFile.state
    /\ stdinOpen' = TRUE
    /\ line' = <<>>
    /\ filesBySig' = EmptyCache
    /\ todo' = DOMAIN disk \cup { p \in DOMAIN others : others[p].inTarget }
    /\ sigs' = <<>>
    /\ setIdx' = 0
    /\ files' = <<>>
    /\ keepIndex' = -1
    /\ delIdx' = 0
    /\ duplicatesFound' = 0
    /\ bytesSaved' = 0
    /\ report' = "none"
    /\ retErr' = "none"
    /\ ret' = NoRet
    /\ hashed' = {}
    /\ removed' = {}
    /\ failed' = {}
    /\ kept' = {}
    /\ sizeRemoved' = 0
    /\ pruned' = FALSE
    /\ saved' = "none"
    /\ pc' = "scan"
    /\ figures' = <<>>
    /\ UNCHANGED << disk, cacheFile, runs, runLimit, walkOrder, unwalkable,
                    stdinEnds, others, mu, calls >>

\* a map assignment that forgets the paths already under the signature
Append2Overwrite(m, sig, p) ==
    [s \in (DOMAIN m) \cup {sig} |-> IF s = sig THEN <<p>> ELSE m[s]]

\* filesBySig[sig] = append(filesBySig[sig], path)
Append2(m, sig, p) ==
    [s \in (DOMAIN m) \cup {sig} |->
        IF s = sig THEN (IF sig \in DOMAIN m THEN Append(m[sig], p) ELSE <<p>>)
        ELSE m[s]]

\* a callback that lists a file also when UpdateEntry failed on it
ListedAlways(m, u, p) == Append2(m, u.sig, p)

\* dedup.go 80-88: a file UpdateEntry failed on is logged and not listed
Listed(m, u, p) == IF u.err THEN m ELSE Append2(m, u.sig, p)

\* part_007 105-111: cache[path] = newEntry on a nil map is a run-time
\* panic; reads of a nil map find nothing
WritePanics(isNil, u) == isNil /\ u.updated

\* dedup.go 65-90: the walk callback on one path: a directory and a file
\* with another extension are passed over, a media file goes to UpdateEntry
WalkFile ==
    /\ pc = "scan"
    /\ \E p \in todo :
         /\ walkOrder = "lexical" => \A q \in todo \ {p} : StrLess(p, q)
         /\ todo' = todo \ {p}
         /\ IF IsDir(p) \/ ~IsMedia(p)
            THEN UNCHANGED << cache, ret, hashed, filesBySig, pc, retErr, runs >>
            ELSE LET u == UpdateEntry(p, Info(p), cache) IN
                   IF WritePanics(cacheNil, u)
                   THEN /\ hashed' = hashed \cup {p}
                        /\ retErr' = "panic: assignment to entry in nil map"
                        /\ runs' = runs + 1
                        /\ pc' = "panic"
                        /\ UNCHANGED << cache, ret, filesBySig >>
                   ELSE /\ cache' = u.cache
                        /\ ret' = [path |-> p, sig |-> u.sig,
                                   updated |-> u.updated, err |-> u.err,
                                   signed |-> u.signed]
                        /\ hashed' = IF u.signed THEN hashed \cup {p}
                                     ELSE hashed
                        /\ filesBySig' = Listed(filesBySig, u, p)
                        /\ UNCHANGED << pc, retErr, runs >>
    /\ UNCHANGED << disk, cacheFile, scorchedEarth, sigs, setIdx, files,
                    keepIndex, delIdx, duplicatesFound, bytesSaved, report,
                    removed, failed, kept, sizeRemoved, pruned,
                    saved, prev, runLimit, walkOrder,
                    unwalkable, stdinEnds, stdinOpen, loaded, line,
                    others, cacheNil, figures, mu, calls >>

\* a walk that swallows the error of a directory it cannot read
WalkReturnsNil(bad) == "nil"

\* filepath.Walk returns what the callback returned for the directory
WalkReturns(bad) == IF bad THEN "error" ELSE "nil"

\* dedup.go 66-68, 92-94: the walk hands the callback the error of a
\* directory it cannot read (the root or one below it, met at any point of
\* the walk); the callback returns it and runDedup returns it wrapped
WalkError ==
    /\ pc = "scan"
    /\ WalkReturns(unwalkable) # "nil"
    /\ retErr' = "error walking target directory"
    /\ runs' = runs + 1
    /\ pc' = "failed"
    /\ UNCHANGED << disk, cacheFile, cache, filesBySig, todo, scorchedEarth,
                    sigs, setIdx, files, keepIndex, delIdx, duplicatesFound,
                    bytesSaved, report, ret, hashed, removed, failed, kept,
                    sizeRemoved, pruned, saved, prev, runLimit, walkOrder,
                    unwalkable, stdinEnds, stdinOpen, loaded, line,
                    others, cacheNil, figures, mu, calls >>

\* a grouper that also lists signatures with a single path
DuplicateSigsAll(m) == DOMAIN m

\* dedup.go 103-108: signatures with more than one path
DuplicateSigs(m) == { s \in DOMAIN m : Len(m[s]) > 1 }

\* dedup.go 92-109: the walk returned nil; collect and sort the signatures
Group ==
    /\ pc = "scan"
    /\ todo = {}
    /\ WalkReturns(unwalkable) = "nil"
    /\ sigs' = SetToSortedSigs(DuplicateSigs(filesBySig))
    /\ IF sigs' = <<>>
       THEN pc' = "prune" /\ setIdx' = 0
       ELSE pc' = "resolve" /\ setIdx' = 1
    /\ ret' = NoRet
    /\ UNCHANGED << disk, cacheFile, cache, filesBySig, todo, scorchedEarth,
                    files, keepIndex, delIdx, duplicatesFound, bytesSaved,
                    report, retErr, runs, hashed, removed, failed, kept,
                    sizeRemoved, pruned, saved, prev, runLimit, walkOrder,
                    unwalkable, stdinEnds, stdinOpen, loaded, line,
                    others, cacheNil, figures, mu, calls >>

\* dedup.go 115: sig[:8] is a run-time panic when len(sig) < 8
SlicePanics(sig) == Len(sig) < 8

\* dedup.go 111-133: present the set; in scorched earth mode keep index 0
BeginSet ==
    /\ pc = "resolve"
    /\ LET sig == sigs[setIdx]
           sorted == SortFiles(filesBySig[sig]) IN
         /\ duplicatesFound' = duplicatesFound + 1
         /\ IF SlicePanics(sig)
            THEN /\ retErr' = "panic: slice bounds out of range"
                 /\ runs' = runs + 1
                 /\ pc' = "panic"
                 /\ UNCHANGED << files, filesBySig, delIdx, keepIndex, kept >>
            ELSE /\ files' = sorted
                 /\ filesBySig' = [filesBySig EXCEPT ![sig] = sorted]
                 /\ delIdx' = 0
                 /\ UNCHANGED << retErr, runs >>
                 /\ IF scorchedEarth
                    THEN /\ keepIndex' = 0
                         /\ kept' = kept \cup {sorted[1]}
                         /\ pc' = "delete"
                    ELSE /\ keepIndex' = -1
                         /\ kept' = kept
                         /\ pc' = "prompt"
    /\ UNCHANGED << disk, cacheFile, cache, todo, scorchedEarth, sigs, setIdx,
                    bytesSaved, report, ret, hashed, removed,
                    failed, sizeRemoved, pruned, saved, prev, runLimit, walkOrder,
                    unwalkable, stdinEnds, stdinOpen, loaded, line,
                    others, cacheNil, figures, mu, calls >>

\* ------------------------------------------------- interactive resolution
Digits == <<"0", "1", "2", "3", "4", "5", "6", "7", "8", "9">>

IsDigit(ch) == \E d \in DOMAIN Digits : Digits[d] = ch

DigitVal(ch) == (CHOOSE d \in DOMAIN Digits : Digits[d] = ch) - 1

\* the lines the operator may type (without the line end)
Inputs == { <<"s">>, <<"a">>, <<"1">>, <<"2">>, <<"3">>, <<"9">>, <<"0">>, <<"x">>,
            <<"1", "x">>, <<"S">>, <<"A">>, <<"+", "1">>, <<"-", "1">>,
            <<" ", "2", " ">>, <<" ", "s">>, <<>> }

RECURSIVE TrimLeft(_)
TrimLeft(s) == IF s # <<>> /\ Head(s) = " " THEN TrimLeft(Tail(s)) ELSE s

RECURSIVE TrimRight(_)
TrimRight(s) ==
    IF s # <<>> /\ s[Len(s)] = " " THEN TrimRight(SubSeq(s, 1, Len(s) - 1))
    ELSE s

\* strings.TrimSpace
TrimSpace(s) == TrimRight(TrimLeft(s))

RECURSIVE DigitPrefix(_)
DigitPrefix(s) ==
    IF s # <<>> /\ IsDigit(Head(s)) THEN <<Head(s)>> \o DigitPrefix(Tail(s))
    ELSE <<>>

RECURSIVE Atoi(_)
Atoi(s) == IF s = <<>> THEN 0
           ELSE 10 * Atoi(SubSeq(s, 1, Len(s) - 1)) + DigitVal(s[Len(s)])

\* fmt.Sscanf(input, "%d", &idx): an optional sign and the digits after it
\* are converted, what follows them is left unread; no digit is an error
Sscanf(input) ==
    LET signed == input # <<>> /\ Head(input) \in {"+", "-"}
        d == DigitPrefix(IF signed THEN Tail(input) ELSE input)
    IN  IF d = <<>> THEN [err |-> TRUE, idx |-> 0]
        ELSE IF signed /\ Head(input) = "-"
             THEN [err |-> FALSE, idx |-> 0 - Atoi(d)]
             ELSE [err |-> FALSE, idx |-> Atoi(d)]

\* a prompt that takes the number typed as a 0-based index
AnswerZeroBased(input, n) ==
    IF input = <<"s">> \/ input = <<"a">> THEN -1
    ELSE LET r == Sscanf(input) IN
           IF ~r.err /\ r.idx >= 0 /\ r.idx < n THEN r.idx ELSE -2

\* dedup.go 140-152: the survivor index a trimmed line selects: -1 for the
\* skip and keep-all tokens, -2 for a line that is not accepted
Answer(input, n) ==
    IF input = <<"s">> \/ input = <<"a">> THEN -1
    ELSE LET r == Sscanf(input) IN
           IF ~r.err /\ r.idx >= 1 /\ r.idx <= n THEN r.idx - 1 ELSE -2

\* dedup.go 135-153: one pass of the prompt loop.  ReadString gives the
\* line up to the line end; at the end of the stream it gives what was left
\* (possibly nothing) and an error, and from then on nothing and an error;
\* the error is dropped (dedup.go 137).
Prompt ==
    /\ pc = "prompt"
    /\ \E raw \in Inputs, eof \in BOOLEAN :
         /\ eof => stdinEnds
         /\ ~stdinOpen => (raw = <<>> /\ eof)
         /\ stdinOpen' = (stdinOpen /\ ~eof)
         /\ line' = TrimSpace(raw)
         /\ LET k == Answer(line', Len(files)) IN
              IF k = -1
              THEN /\ keepIndex' = -1
                   /\ kept' = kept
                   /\ pc' = "delete"
              ELSE IF k >= 0
              THEN /\ keepIndex' = k
                   /\ kept' = kept \cup {files[k + 1]}
                   /\ pc' = "delete"
              ELSE UNCHANGED << keepIndex, kept, pc >>
    /\ UNCHANGED << disk, cacheFile, cache, filesBySig, todo, scorchedEarth,
                    sigs, setIdx, files, delIdx, duplicatesFound, bytesSaved,
                    report, retErr, runs, ret, hashed, removed, failed,
                    sizeRemoved, pruned, saved, prev, runLimit, walkOrder,
                    unwalkable, stdinEnds, loaded,
                    others, cacheNil, figures, mu, calls >>

\* ------------------------------------------------------------- deletion
\* a deletion loop that stops one path short
LoopEndShort(fs) == Len(fs) - 1

\* dedup.go 158: for i, f := range files
LoopEnd(fs) == Len(fs)

\* a deletion loop that does not spare the survivor
IsSurvivorNever(i, keep) == FALSE

\* dedup.go 159: if i == keepIndex { continue }
IsSurvivor(i, keep) == i = keep

\* dedup.go 158-161: the loop passes over the survivor
SkipSurvivor ==
    /\ pc = "delete"
    /\ line' = <<>>
    /\ keepIndex # -1
    /\ delIdx < LoopEnd(files)
    /\ IsSurvivor(delIdx, keepIndex)
    /\ delIdx' = delIdx + 1
    /\ UNCHANGED << disk, cacheFile, cache, filesBySig, todo, pc,
                    scorchedEarth, sigs, setIdx, files, keepIndex,
                    duplicatesFound, bytesSaved, report, retErr, runs, ret,
                    hashed, removed, failed, kept, sizeRemoved, pruned, saved,
                    prev, runLimit, walkOrder,
                    unwalkable, stdinEnds, stdinOpen, loaded,
                    others, cacheNil, figures, mu, calls >>

\* a loop that gives up on the set at the first failed removal
NextIndexBreak(i, ok, n) == IF ok THEN i + 1 ELSE n

\* dedup.go 158-175: both branches of the removal fall through to the next i
NextIndex(i, ok, n) == i + 1

\* bytes accounted for a removed path, read before its entry is deleted
AccountBeforeDelete(c, f, total) ==
    IF f \in DOMAIN c THEN total + c[f].Size ELSE total

\* dedup.go 169-173: delete(cache, f), then look f up in the cache again
AccountAfterDelete(c, f, total) ==
    LET c1 == Delete(c, f) IN
      IF f \in DOMAIN c1 THEN total + c1[f].Size ELSE total

\* dedup.go 163-174: os.Remove on one non-survivor
RemoveFile ==
    /\ pc = "delete"
    /\ line' = <<>>
    /\ keepIndex # -1
    /\ delIdx < LoopEnd(files)
    /\ ~IsSurvivor(delIdx, keepIndex)
    /\ LET f == files[delIdx + 1] IN
         \E ok \in BOOLEAN :
           IF ok /\ Exists(f)
           THEN /\ disk' = RemovePath(disk, f)
                /\ others' = RemovePath(others, f)
                /\ cache' = Delete(cache, f)
                /\ bytesSaved' = AccountAfterDelete(cache, f, bytesSaved)
                /\ removed' = removed \cup {f}
                /\ sizeRemoved' = AccountBeforeDelete(cache, f, sizeRemoved)
                /\ failed' = failed
                /\ delIdx' = NextIndex(delIdx, TRUE, LoopEnd(files))
           ELSE /\ failed' = failed \cup {f}
                /\ delIdx' = NextIndex(delIdx, FALSE, LoopEnd(files))
                /\ UNCHANGED << disk, others, cache, bytesSaved, removed,
                                sizeRemoved >>
    /\ UNCHANGED << cacheFile, filesBySig, todo, pc, scorchedEarth, sigs,
                    setIdx, files, keepIndex, duplicatesFound, report, retErr,
                    runs, ret, hashed, kept, pruned, saved, prev, runLimit, walkOrder,
                    unwalkable, stdinEnds, stdinOpen, loaded,
                    cacheNil, figures, mu, calls >>

\* a loop over the sets that does not wait for the deletions of a set
SetFinishedAlways(keep, i, n) == TRUE

\* dedup.go 156-177: the body of the loop over the sets ends when the set
\* has no survivor or the deletion loop has gone through all its paths
SetFinished(keep, i, n) == keep = -1 \/ i >= n

\* a loop over the sets that a skipped set ends
MoreSetsUnlessSkipped(i, n, keep) == i < n /\ keep # -1

\* dedup.go 111: for _, sig := range sigs
MoreSets(i, n, keep) == i < n

\* dedup.go 111, 156, 177: the set is done; go to the next one or to pruning
NextSet ==
    /\ pc = "delete"
    /\ line' = <<>>
    /\ SetFinished(keepIndex, delIdx, LoopEnd(files))
    /\ IF MoreSets(setIdx, Len(sigs), keepIndex)
       THEN pc' = "resolve" /\ setIdx' = setIdx + 1
       ELSE pc' = "prune" /\ setIdx' = setIdx
    /\ UNCHANGED << disk, cacheFile, cache, filesBySig, todo, scorchedEarth,
                    sigs, files, keepIndex, delIdx, duplicatesFound,
                    bytesSaved, report, retErr, runs, ret, hashed, removed,
                    failed, kept, sizeRemoved, pruned, saved, prev, runLimit, walkOrder,
                    unwalkable, stdinEnds, stdinOpen, loaded,
                    others, cacheNil, figures, mu, calls >>

\* ------------------------------------------------------ prune and save
\* a pruner that drops nothing
PruneCacheKeepAll(c) == c

\* a pruner that keeps the entries of the media files of the target only
PruneCacheInTree(c) == [q \in { x \in DOMAIN c : x \in DOMAIN disk } |-> c[q]]

\* dedup.go 180-184: drop every entry whose path os.Stat reports missing
PruneCache(c) == [q \in { x \in DOMAIN c : Exists(x) } |-> c[q]]

Prune ==
    /\ pc = "prune"
    /\ cache' = PruneCache(cache)
    /\ pruned' = TRUE
    /\ pc' = "save"
    /\ UNCHANGED << disk, cacheFile, filesBySig, todo, scorchedEarth, sigs,
                    setIdx, files, keepIndex, delIdx, duplicatesFound,
                    bytesSaved, report, retErr, runs, ret, hashed, removed,
                    failed, kept, sizeRemoved, saved, prev, runLimit, walkOrder,
                    unwalkable, stdinEnds, stdinOpen, loaded, line,
                    others, cacheNil, figures, mu, calls >>

\* dedup.go 192-196: the summary line
Summary(found) ==
    IF found = 0 THEN "No duplicates found." ELSE "Cleanup complete."

\* dedup.go 195: float64(bytesSaved)/(1024*1024) as %.2f prints, in
\* hundredths of a MB
MegaBytes(bytes) == (bytes * 100 + 524288) \div 1048576

\* dedup.go 192-196: the figures the summary line carries: none in "No
\* duplicates found.", the space saved in "Cleanup complete. Saved approx
\* %.2f MB"
SummaryFigures(found, bytes) ==
    IF found = 0 THEN <<>>
    ELSE << [label |-> "MB saved", value |-> MegaBytes(bytes)] >>

\* a run that prints "Cache saved." whatever SaveCache returned
SaveLineAlwaysOk(ok) == "ok"

\* dedup.go 186-190: "Cache saved." or "Error saving cache: ..."
SaveLine(ok) == IF ok THEN "ok" ELSE "err"

\* SaveCache: MkdirAll or Create fails and the file stays as it was, or
\* Create truncates the file and Encode fails on the way, or all is written
SaveCache(cf, c) ==
    { [file |-> cf, ok |-> FALSE],
      [file |-> [state |-> "corrupt", data |-> EmptyCache], ok |-> FALSE],
      [file |-> [state |-> "valid", data |-> c], ok |-> TRUE] }

\* dedup.go 186-198: SaveCache (which may fail; a nil map is encoded as
\* null), the summary, return nil
SaveAndReturn ==
    /\ pc = "save"
    /\ \E r \in SaveCache(cacheFile, cache) :
         /\ cacheFile' = IF r.ok /\ cacheNil
                         THEN [state |-> "null", data |-> EmptyCache]
                         ELSE r.file
         /\ saved' = SaveLine(r.ok)
    /\ report' = Summary(duplicatesFound)
    /\ figures' = SummaryFigures(duplicatesFound, bytesSaved)
    /\ retErr' = "nil"
    /\ runs' = runs + 1
    /\ pc' = "done"
    /\ UNCHANGED << disk, cache, filesBySig, todo, scorchedEarth, sigs, setIdx,
                    files, keepIndex, delIdx, duplicatesFound, bytesSaved, ret,
                    hashed, removed, failed, kept, sizeRemoved, pruned, prev, runLimit, walkOrder,
                    unwalkable, stdinEnds, stdinOpen, loaded, line,
                    others, cacheNil, mu, calls >>

Next ==
    \/ StartRun
    \/ WalkFile
    \/ WalkError
    \/ Group
    \/ BeginSet
    \/ Prompt
    \/ SkipSurvivor
    \/ RemoveFile
    \/ NextSet
    \/ Prune
    \/ SaveAndReturn

Spec == Init /\ [][Next]_vars

SpecTwice == InitTwice /\ [][Next]_vars

SpecAnyOrder == InitAnyOrder /\ [][Next]_vars

\* one run that takes its next step whenever it has one (a sequential
\* program; the operator at an open input stream eventually answers)
SpecLive == InitAnyOrder /\ [][Next]_vars /\ WF_vars(Next)

\* one run over a target that also holds a directory and a file with
\* another extension, next to a file outside the target; the cache file is
\* missing or comes from earlier runs on other targets
InitTree ==
    /\ disk \in InitDisks
    /\ cacheFile \in { [state |-> "missing", data |-> EmptyCache],
                       [state |-> "valid", data |-> TreeCache] }
    /\ runLimit = 1
    /\ walkOrder = "lexical"
    /\ stdinEnds = FALSE
    /\ others = Extras
    /\ InitRun

SpecTree == InitTree /\ [][Next]_vars

\* a signature string a cache file can hold that no file hashes to
ShortSigs == { <<>>, <<10, 11>> }

\* a cache file whose entries for "aa" and "b" carry one short signature,
\* with the modTime of the files and the size of content 1
ShortSigCaches ==
    { [p \in { <<1, 1>>, <<2>> } |-> FileEntry(sg, 1, SizeOf(1))] :
        sg \in ShortSigs }

\* one run that meets any decodable cache file: the JSON value null, an
\* object whose entries carry short signatures, an object of digests, or
\* no file
InitAnyCacheFile ==
    /\ disk \in InitDisks
    /\ cacheFile \in
          { [state |-> "null", data |-> EmptyCache],
            [state |-> "missing", data |-> EmptyCache] }
          \cup { [state |-> "valid", data |-> c] : c \in ShortSigCaches }
          \cup { [state |-> "valid",
                  data |-> [p \in { <<1, 1>>, <<2>> } |->
                              FileEntry(Digest(1), 1, SizeOf(1))]] }
    /\ runLimit = 1
    /\ walkOrder = "lexical"
    /\ stdinEnds = FALSE
    /\ others = NoOthers
    /\ InitRun

SpecAnyCacheFile == InitAnyCacheFile /\ [][Next]_vars

\* ------------------------------------- UpdateEntry with a shared mutex
\* everything but the Store, the mutex and the callers
runVars == << disk, cacheFile, filesBySig, todo, pc, scorchedEarth, sigs,
              setIdx, files, keepIndex, delIdx, duplicatesFound, bytesSaved,
              report, retErr, runs, runLimit, walkOrder, ret, hashed, removed,
              failed, kept, sizeRemoved, pruned, saved, prev, unwalkable,
              stdinEnds, stdinOpen, loaded, line, others, cacheNil, figures >>

\* goroutines call UpdateEntry, once each, on files of a tree of readable
\* files, with one Store (empty, or holding one entry) and one mutex
InitConc ==
    /\ disk \in { d \in InitDisks : \A p \in DOMAIN d : d[p].readable }
    /\ cacheFile = [state |-> "missing", data |-> EmptyCache]
    /\ runLimit = 0
    /\ walkOrder = "lexical"
    /\ stdinEnds = FALSE
    /\ others = NoOthers
    /\ InitRun
    /\ unwalkable = FALSE

\* part_007 79: a goroutine calls UpdateEntry(path, info, cache, mu)
CallUpdateEntry(g) ==
    /\ calls[g].pc = "idle"
    /\ \E p \in DOMAIN disk :
          calls' = [calls EXCEPT ![g] = [IdleCall EXCEPT !.pc = "lock1",
                                                        !.path = p]]
    /\ UNCHANGED << cache, mu, runVars >>

\* part_007 81-83: mu.Lock() before the read
LockForRead(g) ==
    /\ calls[g].pc = "lock1"
    /\ mu = 0
    /\ mu' = g
    /\ calls' = [calls EXCEPT ![g].pc = "read"]
    /\ UNCHANGED << cache, runVars >>

\* part_007 84-87: entry, exists := cache[path]; mu.Unlock()
ReadEntry(g) ==
    /\ calls[g].pc = "read"
    /\ mu = g
    /\ LET p == calls[g].path IN
         calls' = [calls EXCEPT
                     ![g].pc = "check",
                     ![g].exists = p \in DOMAIN cache,
                     ![g].entry = IF p \in DOMAIN cache THEN cache[p]
                                  ELSE IdleCall.entry]
    /\ mu' = 0
    /\ UNCHANGED << cache, runVars >>

\* part_007 89-103: the freshness test on what was read, outside the lock;
\* a hit returns, a miss signs the file
CheckAndSign(g) ==
    /\ calls[g].pc = "check"
    /\ LET c == calls[g]
           info == Info(c.path)
           g1 == GenerateSignature(c.path) IN
         IF c.exists /\ c.entry.ModTime = info.ModTime
                     /\ c.entry.Size = info.Size
         THEN calls' = [calls EXCEPT ![g].pc = "returned",
                                     ![g].sig = c.entry.Signature]
         ELSE IF g1.err
         THEN calls' = [calls EXCEPT ![g].pc = "returned"]
         ELSE calls' = [calls EXCEPT ![g].pc = "lock2", ![g].sig = g1.sig]
    /\ UNCHANGED << cache, mu, runVars >>

\* part_007 105-106: mu.Lock() before the write
LockForWrite(g) ==
    /\ calls[g].pc = "lock2"
    /\ mu = 0
    /\ mu' = g
    /\ calls' = [calls EXCEPT ![g].pc = "write"]
    /\ UNCHANGED << cache, runVars >>

\* part_007 107-108, 113: cache[path] = newEntry; mu.Unlock(); return
WriteEntry(g) ==
    /\ calls[g].pc = "write"
    /\ mu = g
    /\ LET c == calls[g]
           info == Info(c.path) IN
         cache' = Put(cache, c.path, FileEntry(c.sig, info.ModTime, info.Size))
    /\ mu' = 0
    /\ calls' = [calls EXCEPT ![g].pc = "returned"]
    /\ UNCHANGED runVars

NextConc ==
    \E g \in Callers :
        \/ CallUpdateEntry(g)
        \/ LockForRead(g)
        \/ ReadEntry(g)
        \/ CheckAndSign(g)
        \/ LockForWrite(g)
        \/ WriteEntry(g)

SpecConc == InitConc /\ [][NextConc]_vars

\* ================================================================ claims
\* the walk has delivered every file and nothing has been resolved yet
ScanComplete == pc = "scan" /\ todo = {}

\* the run is past its scan
PastScan == pc \in {"resolve", "prompt", "delete", "prune", "save", "done"}

\* the Store the run started from
LoadedStore == IF cacheFile.state = "valid" THEN cacheFile.data ELSE EmptyCache

\* the loaded Store holds an entry for p with p's live modTime and size
StoredMatch(c, p) ==
    /\ p \in DOMAIN c
    /\ p \in DOMAIN disk
    /\ c[p].ModTime = disk[p].modTime
    /\ c[p].Size = SizeOf(disk[p].content)

\* listed under exactly one signature, and that one is shared
ListedTogether(p, q) ==
    \E s \in DOMAIN filesBySig :
        /\ p \in Range(filesBySig[s])
        /\ q \in Range(filesBySig[s])
        /\ \A t \in DOMAIN filesBySig \ {s} :
              p \notin Range(filesBySig[t]) /\ q \notin Range(filesBySig[t])

CoListed(p, q) ==
    \E s \in DOMAIN filesBySig :
        p \in Range(filesBySig[s]) /\ q \in Range(filesBySig[s])

\* the scan can give p a signature: a trusted entry, or a readable file
Resolvable(p) == StoredMatch(LoadedStore, p) \/ disk[p].readable

\* C1 as stated: after the scan, for any initial Store and any tree, the
\* scanned media files (those the scan gave a signature) with identical
\* content are listed together under exactly one signature, and files with
\* different content are never listed together.
C1_AsStated ==
    ScanComplete =>
        \A p, q \in DOMAIN disk :
            IF disk[p].content = disk[q].content
            THEN (Resolvable(p) /\ Resolvable(q)) => ListedTogether(p, q)
            ELSE ~CoListed(p, q)

\* every entry of the loaded Store that the freshness test will trust holds
\* the digest of the file's current content
TrustedEntriesTrue ==
    \A p \in DOMAIN disk :
        StoredMatch(LoadedStore, p) =>
            LoadedStore[p].Signature = Digest(disk[p].content)

\* C1 (amended): when every trusted entry of the initial Store holds the
\* digest of its file's current content, then after the scan the media
\* files whose signature could be resolved and whose content is identical
\* are listed together under exactly one signature, and two files of
\* different content are never listed under the same signature.
C1_Grouping ==
    (ScanComplete /\ TrustedEntriesTrue) =>
        \A p, q \in DOMAIN disk :
            IF disk[p].content = disk[q].content
            THEN (Resolvable(p) /\ Resolvable(q)) => ListedTogether(p, q)
            ELSE ~CoListed(p, q)

\* C1 is exercised: a scan ended with three files of one content listed
\* together, one of them through a trusted entry and not by hashing
C1_Witness ==
    /\ ScanComplete
    /\ TrustedEntriesTrue
    /\ \E s \in DOMAIN filesBySig :
          /\ Len(filesBySig[s]) >= 3
          /\ \E p \in Range(filesBySig[s]) : p \notin hashed

\* the survivor of the duplicate set under sig, if the set was given one
SurvivorsOf(sig) == PathsOf(sig) \cap kept

\* the position of sig in the list of sets
SetDone(k) ==
    \/ k < setIdx
    \/ k = setIdx /\ pc = "delete" /\ (keepIndex = -1 \/ delIdx >= Len(files))
    \/ pc \in {"prune", "save", "done"}

\* C2: the survivor of a resolved set is never removed; at every point of
\* the run each duplicate set has a file on disk; and once a set with a
\* survivor is done without a failed removal, exactly its survivor remains.
C2_SurvivorKept ==
    PastScan =>
        /\ kept \cap removed = {}
        /\ kept \subseteq DOMAIN disk
        /\ \A k \in 1..Len(sigs) :
              /\ PathsOf(sigs[k]) \cap DOMAIN disk # {}
              /\ (/\ SetDone(k)
                  /\ SurvivorsOf(sigs[k]) # {}
                  /\ PathsOf(sigs[k]) \cap failed = {})
                 => /\ PathsOf(sigs[k]) \cap DOMAIN disk = SurvivorsOf(sigs[k])
                    /\ Cardinality(SurvivorsOf(sigs[k])) = 1

\* C2 is exercised: an interactive run chose a survivor that is not the
\* first path, removed the two others and finished
C2_Witness ==
    /\ pc = "done"
    /\ ~scorchedEarth
    /\ keepIndex = 1
    /\ Cardinality(removed) >= 2
    /\ kept # {}

\* shorter first, then lexicographic
ComesFirst(a, b) ==
    \/ Len(a) < Len(b)
    \/ Len(a) = Len(b) /\ StrLess(a, b)

\* C3: in scorched earth mode the survivor of every set is the path that is
\* first by length and then lexicographically, whatever order the walk
\* delivered the paths in.
C3_ShortestSurvives ==
    (scorchedEarth /\ PastScan) =>
        \A k \in 1..Len(sigs) :
            \A s \in SurvivorsOf(sigs[k]) :
                \A q \in PathsOf(sigs[k]) \ {s} : ComesFirst(s, q)

\* C3 is exercised: "b" survives a set that holds the lexicographically
\* smaller but longer "aa", which the walk delivered before it
C3_Witness ==
    /\ scorchedEarth
    /\ pc = "delete"
    /\ <<2>> \in kept
    /\ <<1, 1>> \in Range(files)
    /\ <<1, 1>> \in removed

\* the signatures the scan listed two or more paths under
SharedSigs ==
    { s \in DOMAIN filesBySig : Cardinality(Range(filesBySig[s])) >= 2 }

\* the paths that are alone under their signature
Unique == { p \in Grouped :
              \E s \in DOMAIN filesBySig : filesBySig[s] = <<p>> }

\* C4: a file that is alone under its signature is never handed to removal
\* and keeps its file and its Store entry, in both modes; a run without a
\* shared signature removes nothing and reports "No duplicates found."
C4_UniqueUntouched ==
    /\ (PastScan \/ ScanComplete) =>
          \A p \in Unique :
              /\ p \notin removed
              /\ p \notin failed
              /\ p \in DOMAIN disk
              /\ p \in DOMAIN cache
              /\ (pc = "done" /\ saved = "ok") => p \in DOMAIN cacheFile.data
    /\ (pc = "done" /\ SharedSigs = {}) =>
          /\ removed = {}
          /\ failed = {}
          /\ report = "No duplicates found."

\* C4 is exercised: a finished run removed a duplicate while a unique file
\* of the same tree stayed
C4_Witness ==
    /\ pc = "done"
    /\ removed # {}
    /\ Unique # {}

\* the walk callback ran on p in this step
Scanned(p) == pc = "scan" /\ p \in todo /\ p \notin todo'

\* C5, the call: UpdateEntry on a path whose entry carries the live modTime
\* and size returns the stored signature, not fresh, without invoking
\* GenerateSignature and without changing the Store.
C5_HitStep ==
    \A p \in Paths :
        (Scanned(p) /\ StoredMatch(cache, p)) =>
            /\ ret'.path = p
            /\ ret'.sig = cache[p].Signature
            /\ ~ret'.updated
            /\ ~ret'.err
            /\ hashed' = hashed
            /\ cache' = cache

\* C5, the consequence: in a run that follows a run whose Store was saved,
\* no file the earlier run gave a signature is hashed again.
C5_NoRehash == (prev.ran /\ prev.saved) => hashed \cap prev.resolved = {}

\* C5: a cache hit returns the stored signature without hashing or writing,
\* hence the second scan of an unchanged file never re-hashes it.
C5_CacheHit == [][C5_HitStep]_vars /\ []C5_NoRehash

\* C5 is exercised: the second run's scan ended on a hit for a file the
\* first run hashed
C5_Witness ==
    /\ prev.ran
    /\ prev.saved
    /\ pc = "scan"
    /\ ret.path \in prev.resolved
    /\ ~ret.updated
    /\ ~ret.err
    /\ hashed = {}

\* the Store entry of p is missing or does not carry the live modTime and size
StoredMiss(c, p) == p \in DOMAIN disk /\ ~StoredMatch(c, p)

\* what a miss must leave behind
C6_MissEffect(p) ==
    /\ ret'.path = p
    /\ p \in hashed'
    /\ ret'.updated
    /\ ~ret'.err
    /\ ret'.sig = Digest(disk[p].content)
    /\ p \in DOMAIN cache'
    /\ cache'[p] = [Signature |-> Digest(disk[p].content),
                    ModTime |-> disk[p].modTime,
                    Size |-> SizeOf(disk[p].content)]
    /\ DOMAIN cache' = DOMAIN cache \cup {p}
    /\ \A q \in DOMAIN cache \ {p} : cache'[q] = cache[q]
    /\ \A c \in Contents :
          (p \in DOMAIN cache /\ cache[p].Signature = Digest(c)
             /\ c # disk[p].content) => ret'.sig # cache[p].Signature

\* C6 as stated: UpdateEntry on a path without a matching entry invokes the
\* signer, overwrites the entry with {new signature, live modTime, live
\* size} and returns the digest of the current content with fresh = true.
C6_AsStated ==
    [][\A p \in Paths : (Scanned(p) /\ StoredMiss(cache, p)) => C6_MissEffect(p)]_vars

\* C6 (amended): the same, for a file the Content Signer can read.
C6_Miss ==
    [][\A p \in Paths :
          (Scanned(p) /\ StoredMiss(cache, p) /\ disk[p].readable)
              => C6_MissEffect(p)]_vars

\* C6 is exercised: a stale entry (right modTime, wrong size, a signature
\* of other content) was replaced by a fresh one
C6_Witness ==
    /\ pc = "scan"
    /\ ret.updated
    /\ ret.path \in DOMAIN LoadedStore
    /\ LoadedStore[ret.path].ModTime = disk[ret.path].modTime
    /\ LoadedStore[ret.path].Size # SizeOf(disk[ret.path].content)
    /\ LoadedStore[ret.path].Signature # ret.sig
    /\ cache[ret.path].Signature = ret.sig

\* what the second of two automatic runs must find
C7_NothingLeft ==
    /\ duplicatesFound = 0
    /\ removed = {}
    /\ failed = {}
    /\ PastScan => SharedSigs = {}
    /\ pc = "done" => report = "No duplicates found."

C8_Pruned ==
    /\ pc = "done" => pruned
    /\ pc \in {"save", "done"} => DOMAIN cache \subseteq DOMAIN disk
    /\ (pc = "done" /\ saved = "ok") =>
          /\ cacheFile.state = "valid"
          /\ cacheFile.data = cache
          /\ DOMAIN cacheFile.data \subseteq DOMAIN disk

\* C8 is exercised: a run without duplicates dropped the entry of a file
\* that was removed outside the tool before the run
C8_Witness ==
    /\ pc = "save"
    /\ duplicatesFound = 0
    /\ removed = {}
    /\ \E p \in DOMAIN LoadedStore : p \notin DOMAIN disk /\ p \notin DOMAIN cache

\* C9: at the end of a run bytesSaved is the sum of the Store-recorded
\* sizes of the paths whose removal succeeded.
C9_BytesSaved == pc = "done" => bytesSaved = sizeRemoved

\* C10, the step: a failed removal changes nothing but the loop position,
\* which moves to the next path of the set.
C10_FailStep ==
    failed' # failed =>
        /\ pc' = "delete"
        /\ delIdx' = delIdx + 1
        /\ retErr' = retErr
        /\ UNCHANGED << disk, cache, sigs, setIdx, files, keepIndex >>

\* C10, the outcome: a finished run with a failed removal has tried every
\* non-survivor of every resolved set, presented every set, pruned, called
\* SaveCache and returned nil.
C10_Outcome ==
    (pc = "done" /\ failed # {}) =>
        /\ \A k \in 1..Len(sigs) :
              SurvivorsOf(sigs[k]) # {} =>
                  PathsOf(sigs[k]) \ kept \subseteq removed \cup failed
        /\ duplicatesFound = Len(sigs)
        /\ scorchedEarth => \A k \in 1..Len(sigs) : SurvivorsOf(sigs[k]) # {}
        /\ pruned
        /\ saved # "none"
        /\ retErr = "nil"

\* C10: a failed removal stops neither the set's remaining removals nor the
\* later sets nor pruning and saving, and runDedup returns no error.
C10_FailureTolerated == [][C10_FailStep]_vars /\ []C10_Outcome

\* C10 is exercised: a removal of the first set failed and a path of the
\* second set was removed afterwards
C10_Witness ==
    /\ pc = "done"
    /\ Len(sigs) = 2
    /\ failed \cap PathsOf(sigs[1]) # {}
    /\ removed \cap PathsOf(sigs[2]) # {}

\* the Deleter has gone through the whole current set
DeleterDone == pc = "delete" /\ keepIndex # -1 /\ delIdx >= Len(files)

\* C11, the step: a step of the Deleter leaves the survivor's file and its
\* Store entry as they were, and a path whose removal succeeds in the step
\* is a non-survivor of the set that is then neither on disk nor in the Store.
C11_Step ==
    (pc = "delete" /\ keepIndex # -1) =>
        LET s == files[keepIndex + 1] IN
          /\ s \in DOMAIN disk
          /\ s \in DOMAIN disk'
          /\ disk'[s] = disk[s]
          /\ s \in DOMAIN cache
          /\ s \in DOMAIN cache'
          /\ cache'[s] = cache[s]
          /\ \A f \in removed' \ removed :
                /\ f \in Range(files) \ {s}
                /\ f \notin DOMAIN disk'
                /\ f \notin DOMAIN cache'

\* C11, the outcome: after the Deleter step every path at another index was
\* handed to removal, and those whose removal succeeded are off the disk and
\* out of the Store, while the survivor is on disk and in the Store.
C11_After ==
    DeleterDone =>
        \A i \in 0..(Len(files) - 1) :
            IF i = keepIndex
            THEN /\ files[i + 1] \in DOMAIN disk
                 /\ files[i + 1] \in DOMAIN cache
                 /\ files[i + 1] \notin removed \cup failed
            ELSE /\ files[i + 1] \in removed \cup failed
                 /\ files[i + 1] \in removed =>
                       /\ files[i + 1] \notin DOMAIN disk
                       /\ files[i + 1] \notin DOMAIN cache

\* C11: after the Deleter step for a set with survivor index i, every path
\* at another index whose removal succeeded is absent from disk and from
\* the Store, and the survivor's file and Store entry are unchanged.
C11_Deleter == [][C11_Step]_vars /\ []C11_After

\* C11 is exercised: the Deleter went through a set of three with the
\* second path as survivor; one removal succeeded and one failed
C11_Witness ==
    /\ DeleterDone
    /\ keepIndex = 1
    /\ Len(files) >= 3
    /\ Range(files) \cap removed # {}
    /\ Range(files) \cap failed # {}

\* C12: when UpdateEntry invokes GenerateSignature on a path and the file
\* cannot be opened or read, UpdateEntry returns an error and the Store is
\* exactly what it was before the call.
C12_SignFailure ==
    [][\A p \in Paths :
          (Scanned(p) /\ p \in hashed' /\ ~disk[p].readable) =>
              /\ ret'.path = p
              /\ ret'.err
              /\ ~ret'.updated
              /\ cache' = cache]_vars

\* C12 is exercised: signing failed on a path whose stale entry is still in
\* the Store as it was loaded
C12_Witness ==
    /\ pc = "scan"
    /\ ret.err
    /\ ret.path \in hashed
    /\ ret.path \in DOMAIN cache
    /\ cache = LoadedStore

\* the part of the run in which the cache file is still the one loaded
InRun == pc \in {"scan", "resolve", "prompt", "delete", "prune", "save"}

\* p is a member of a duplicate set
InDuplicateSet(p) == \E k \in 1..Len(sigs) : p \in PathsOf(sigs[k])

\* C13 as stated: a media file that cannot be opened is in no signature
\* group and in no duplicate set, and when the walk has delivered every file
\* all readable media files are grouped.
C13_AsStated ==
    InRun =>
        /\ \A p \in DOMAIN disk :
              ~disk[p].readable => (p \notin Grouped /\ ~InDuplicateSet(p))
        /\ ScanComplete =>
              \A p \in DOMAIN disk : disk[p].readable => p \in Grouped

\* C13 (amended): the same for an unreadable media file that has no Store
\* entry with its live modTime and size, which is the file UpdateEntry
\* fails on.
C13_Excluded ==
    InRun =>
        /\ \A p \in DOMAIN disk :
              (~disk[p].readable /\ ~StoredMatch(LoadedStore, p)) =>
                  (p \notin Grouped /\ ~InDuplicateSet(p))
        /\ ScanComplete =>
              \A p \in DOMAIN disk : disk[p].readable => p \in Grouped

\* C13 is exercised: the first file of the walk could not be hashed and the
\* scan went on to list the three others, two of them together
C13_Witness ==
    /\ ScanComplete
    /\ <<1, 1>> \in hashed
    /\ <<1, 1>> \notin Grouped
    /\ Cardinality(Grouped) = 3
    /\ SharedSigs # {}

\* C14, the step: a scan changes neither the tree nor the cache file, and
\* the scan of a tree whose walk reports an error ends in nothing but the
\* error return.
C14_Step ==
    pc = "scan" =>
        /\ disk' = disk
        /\ cacheFile' = cacheFile
        /\ unwalkable => pc' \in {"scan", "failed"}

\* C14, the outcome: the run that returned the walk error has deleted
\* nothing, resolved no set, and neither pruned nor saved the Store.
C14_Outcome ==
    /\ unwalkable => pc \in {"idle", "scan", "failed"}
    /\ pc = "failed" =>
          /\ retErr = "error walking target directory"
          /\ removed = {}
          /\ failed = {}
          /\ kept = {}
          /\ sigs = <<>>
          /\ duplicatesFound = 0
          /\ ~pruned
          /\ saved = "none"
          /\ report = "none"

\* C14: when the walk reports an error runDedup returns an error, and in
\* that run no file is deleted, no set is resolved and the Store is neither
\* pruned nor written.
C14_WalkError == [][C14_Step]_vars /\ []C14_Outcome

\* C14 is exercised: the walk failed after it had listed two files under
\* one signature and had written entries into the Store in memory
C14_Witness ==
    /\ pc = "failed"
    /\ SharedSigs # {}
    /\ cache # LoadedStore

\* the cache file gave LoadCache nothing to load
NothingLoaded == loaded \in {"missing", "corrupt", "unopenable"}

\* C15: when the cache file is missing, not decodable or not openable, the
\* run is not aborted: it starts from an empty Store, hashes every file it
\* scans, and goes on to resolve, prune and save; only a walk error ends it.
C15_LoadFailure ==
    NothingLoaded =>
        /\ pc = "failed" => unwalkable
        /\ pc = "scan" =>
              /\ hashed = DOMAIN disk \ todo
              /\ DOMAIN cache \subseteq hashed
        /\ PastScan =>
              /\ hashed = DOMAIN disk \cup removed
              /\ Grouped \subseteq hashed
        /\ pc = "done" =>
              /\ retErr = "nil"
              /\ pruned
              /\ saved # "none"
              /\ duplicatesFound = Len(sigs)

\* C15 is exercised: a run whose cache file could not be opened removed a
\* duplicate and saved a Store
C15_Witness ==
    /\ loaded = "unopenable"
    /\ pc = "done"
    /\ removed # {}
    /\ saved = "ok"
    /\ cacheFile.state = "valid"
    /\ cacheFile.data # EmptyCache

\* C16, the step: a SaveCache that does not leave the Store in the cache
\* file prints the save error; runDedup still prints its summary and
\* returns nil, and the tree stays as the deletions left it.
C16_Step ==
    (pc = "save" /\ cacheFile' # [state |-> "valid", data |-> cache]) =>
        /\ pc' = "done"
        /\ saved' = "err"
        /\ retErr' = "nil"
        /\ report' = Summary(duplicatesFound)
        /\ disk' = disk
        /\ removed' = removed

\* C16, the outcome: after a failed save the removed files are still gone.
C16_Outcome ==
    (pc = "done" /\ saved = "err") =>
        /\ retErr = "nil"
        /\ report # "none"
        /\ removed \cap DOMAIN disk = {}

\* C16: when SaveCache fails, runDedup completes and returns no error, the
\* save error is printed, and the deletions stay in effect.
C16_SaveFailure == [][C16_Step]_vars /\ []C16_Outcome

\* C16 is exercised: a run that removed a file failed to save and finished
C16_Witness ==
    /\ pc = "done"
    /\ saved = "err"
    /\ removed # {}
    /\ report = "Cleanup complete."
    /\ retErr = "nil"

\* C17: a run whose input stream has ended at the prompt leaves the prompt
\* loop and finishes.  (At the end of the stream a pass of the prompt loop
\* reads "" and changes nothing, so the loop shows as a step that leaves
\* every variable as it is.)
C17_EndOfInput == (pc = "prompt" /\ ~stdinOpen) ~> (pc = "done")

\* the line is a decimal number and nothing else
IsDecimal(l) == l # <<>> /\ \A i \in DOMAIN l : IsDigit(l[i])

\* the Deleter has gone through a set the operator chose a survivor for
ChosenDone == DeleterDone /\ ~scorchedEarth

\* C18, the answer: the integer k with 1 <= k <= N makes the k-th listed
\* path the survivor; 0 and k > N select nothing and the prompt is repeated
\* with nothing changed.
C18_AnswerStep ==
    (pc = "prompt" /\ IsDecimal(line')) =>
        LET k == Atoi(line') IN
          IF 1 <= k /\ k <= Len(files)
          THEN /\ pc' = "delete"
               /\ keepIndex' = k - 1
               /\ kept' = kept \cup {files[k]}
               /\ files' = files
          ELSE /\ pc' = "prompt"
               /\ UNCHANGED << keepIndex, kept, files, disk, cache, removed,
                               failed >>

\* C18 as stated, the removals: once the set is done only the chosen path
\* of the set is on disk.
C18_OthersGone ==
    ChosenDone => Range(files) \cap DOMAIN disk = {files[keepIndex + 1]}

\* C18 (amended), the removals: once the set is done the chosen path is on
\* disk, every other path of the set was handed to removal, and the paths
\* whose removal succeeded are gone.
C18_OthersRemoved ==
    ChosenDone =>
        /\ files[keepIndex + 1] \in DOMAIN disk
        /\ Range(files) \ {files[keepIndex + 1]} \subseteq removed \cup failed
        /\ Range(files) \cap DOMAIN disk =
              {files[keepIndex + 1]} \cup (Range(files) \cap failed)

\* C18 as stated: the answer k in 1..N makes the k-th path the survivor and
\* removes all other paths of the set; 0 and k > N re-prompt.
C18_AsStated == [][C18_AnswerStep]_vars /\ []C18_OthersGone

\* C18 (amended): the answer k in 1..N makes the k-th path the survivor and
\* removes every other path of the set whose removal succeeds; 0 and k > N
\* re-prompt.
C18_Index == [][C18_AnswerStep]_vars /\ []C18_OthersRemoved

\* C18 is exercised: the operator answered 2 for a set of three or more and
\* all the other paths of the set were removed
C18_Witness ==
    /\ ChosenDone
    /\ keepIndex = 1
    /\ Len(files) >= 3
    /\ Range(files) \cap DOMAIN disk = {files[2]}

\* the set at position k was skipped by the operator
Skipped(k) == ~scorchedEarth /\ SetDone(k) /\ SurvivorsOf(sigs[k]) = {}

\* C19, the steps: 's' and 'a' end the prompt of the set without a
\* survivor; leaving a skipped set changes neither tree nor Store and leads
\* to the next set if there is one; and the next set is prompted for.
C19_Step ==
    /\ (pc = "prompt" /\ line' \in {<<"s">>, <<"a">>}) =>
          /\ pc' = "delete"
          /\ keepIndex' = -1
          /\ UNCHANGED << disk, cache, removed, failed, kept >>
    /\ (pc = "delete" /\ keepIndex = -1) =>
          /\ UNCHANGED << disk, cache, removed, failed, kept >>
          /\ IF setIdx < Len(sigs)
             THEN pc' = "resolve" /\ setIdx' = setIdx + 1
             ELSE pc' = "prune"
    /\ (pc = "resolve" /\ ~scorchedEarth) =>
          /\ pc' = "prompt"
          /\ Range(files') = PathsOf(sigs[setIdx])
          /\ keepIndex' = -1

\* C19, the outcome: every file of a skipped set is on disk and in the
\* Store, and none was handed to removal.
C19_Outcome ==
    PastScan =>
        \A k \in 1..Len(sigs) :
            Skipped(k) =>
                /\ PathsOf(sigs[k]) \subseteq DOMAIN disk
                /\ PathsOf(sigs[k]) \subseteq DOMAIN cache
                /\ PathsOf(sigs[k]) \cap (removed \cup failed) = {}

\* C19: the answers 's' and 'a' delete no file and no Store entry of the
\* set and affect only that set: the next set is still prompted for.
C19_Skip == [][C19_Step]_vars /\ []C19_Outcome

\* C19 is exercised: the first of two sets was skipped and a path of the
\* second one was removed at the operator's choice
C19_Witness ==
    /\ ~scorchedEarth
    /\ Len(sigs) = 2
    /\ setIdx = 2
    /\ Skipped(1)
    /\ DeleterDone
    /\ removed \cap PathsOf(sigs[2]) # {}

\* the trimmed line is exactly 's', exactly 'a', or exactly a decimal index
\* in 1..n
ExactlyValid(l, n) ==
    \/ l = <<"s">>
    \/ l = <<"a">>
    \/ IsDecimal(l) /\ Atoi(l) >= 1 /\ Atoi(l) <= n

\* C20: a line is accepted only if, trimmed, it is exactly a decimal index
\* in 1..N, 's' or 'a'; every other line re-prompts.
C20_OnlyExact ==
    [][(pc = "prompt" /\ pc' # "prompt") => ExactlyValid(line', Len(files))]_vars

\* C21: the summary of a completed run reports the number of duplicate sets
\* found, which is the number of signatures with two or more paths after
\* the scan, whether the sets were resolved or skipped.
C21_CountReported ==
    pc = "done" =>
        /\ duplicatesFound = Cardinality(SharedSigs)
        /\ SharedSigs # {} =>
              \E i \in DOMAIN figures :
                  figures[i].value = Cardinality(SharedSigs)

\* the order in which runDedup may pass from one of its steps to the next
StepOrder ==
    { <<"idle", "scan">>, <<"done", "scan">>, <<"failed", "scan">>,
      <<"panic", "scan">>,
      <<"scan", "scan">>, <<"scan", "resolve">>, <<"scan", "prune">>,
      <<"scan", "failed">>, <<"scan", "panic">>,
      <<"resolve", "prompt">>, <<"resolve", "delete">>, <<"resolve", "panic">>,
      <<"prompt", "prompt">>, <<"prompt", "delete">>,
      <<"delete", "delete">>, <<"delete", "resolve">>, <<"delete", "prune">>,
      <<"prune", "save">>, <<"save", "done">> }

\* C22, the steps: the run passes through load, scan, group, then resolve
\* and delete set by set, then prune, then save; the Store is loaded when
\* the run starts; the tree changes only in the deletions of the current
\* set; the next set is resolved only when the deletions of the current one
\* are through; and the cache file is written only by the save that follows
\* the pruning and ends the run.
C22_Step ==
    /\ << pc, pc' >> \in StepOrder
    /\ pc' = "scan" /\ pc # "scan" =>
          /\ cache' = LoadedStore
          /\ todo' = DOMAIN disk \cup { p \in DOMAIN others : others[p].inTarget }
    /\ (disk' # disk \/ removed' # removed \/ failed' # failed) =>
          /\ pc = "delete"
          /\ todo = {}
          /\ \A f \in (removed' \cup failed') \ (removed \cup failed) :
                f \in Range(files)
    /\ (pc = "delete" /\ pc' # "delete") =>
          \/ keepIndex = -1
          \/ Range(files) \ {files[keepIndex + 1]} \subseteq removed \cup failed
    /\ pc' = "prune" => (todo = {} /\ ~pruned)
    /\ pruned' # pruned => (pc = "prune" /\ pc' = "save") \/ (pc' = "scan")
    /\ cacheFile' # cacheFile => (pc = "save" /\ pruned /\ pc' = "done")

\* C22, the states: nothing is deleted while the scan runs, the pruning has
\* run when the save is reached, and the Store has been saved only in a
\* finished run.
C22_State ==
    /\ pc = "scan" => (removed = {} /\ failed = {} /\ kept = {} /\ ~pruned)
    /\ pc \in {"resolve", "prompt", "delete", "prune"} =>
          (todo = {} /\ ~pruned /\ saved = "none")
    /\ pc = "save" => (pruned /\ saved = "none")
    /\ saved # "none" => (pc = "done" /\ pruned)
    /\ pc \in {"failed", "panic"} => (~pruned /\ saved = "none")

\* C22: in every run the steps occur in the order load, scan, group, per
\* set resolve then delete, prune, save; no file is deleted before the scan
\* is complete, a set's deletions finish before the next set is resolved,
\* and the Store is written at most once, after pruning, so a run that
\* stops earlier does not persist it.
C22_Order == [][C22_Step]_vars /\ []C22_State

\* C22 is exercised: a finished run resolved two sets, removed a file of
\* each, pruned and saved
C22_Witness ==
    /\ pc = "done"
    /\ Len(sigs) = 2
    /\ removed \cap PathsOf(sigs[1]) # {}
    /\ removed \cap PathsOf(sigs[2]) # {}
    /\ pruned
    /\ saved = "ok"

\* caller g has read the Store entry and has still to write the new one
BetweenReadAndWrite(g) == calls[g].pc \in {"lock2", "write"}

\* caller h reads or writes the Store in this step
Accesses(h) ==
    \/ calls[h].pc = "read" /\ calls'[h].pc # "read"
    \/ calls[h].pc = "write" /\ calls'[h].pc # "write"

\* C23: with a shared mutex, no other UpdateEntry call reads or writes the
\* Store between one call's read of the entry and that call's write of the
\* new entry.
C23_CriticalSection ==
    [][\A g, h \in Callers :
          (g # h /\ BetweenReadAndWrite(g)) => ~Accesses(h)]_vars

\* a run is resolving the sets of its list
Resolving == pc \in {"resolve", "prompt", "delete"}

\* C24: the list of duplicate sets holds exactly the signatures with two or
\* more paths, each once, in ascending order of the signature string; a
\* signature with one path is never presented, resolved or counted.
C24_SetList ==
    PastScan =>
        /\ Range(sigs) = SharedSigs
        /\ Len(sigs) = Cardinality(SharedSigs)
        /\ \A i, j \in DOMAIN sigs : i < j => StrLess(sigs[i], sigs[j])
        /\ Resolving => setIdx \in DOMAIN sigs
        /\ pc \in {"prompt", "delete"} =>
              /\ Range(files) = Range(filesBySig[sigs[setIdx]])
              /\ Range(files) \cap Unique = {}
              /\ duplicatesFound = setIdx
        /\ kept \cap Unique = {}
        /\ duplicatesFound <= Cardinality(SharedSigs)
        /\ pc \in {"prune", "save", "done"} =>
              duplicatesFound = Cardinality(SharedSigs)

\* C24 is exercised: two sets are listed, the second is being resolved, and a
\* file alone under its signature was left out
C24_Witness ==
    /\ pc = "delete"
    /\ Len(sigs) = 2
    /\ setIdx = 2
    /\ StrLess(sigs[1], sigs[2])
    /\ removed # {}

\* "c.mp4" and the directory "d.mp3"
NotMedia == { <<3>>, <<4>> }

\* C25: directories and files whose extension, compared without regard to
\* case, is not .mp3, .flac, .m4a or .wav are never hashed, never added to
\* the Store by the scan, never grouped and never deleted; files with a
\* recognized extension in any letter case are scanned.
C25_Filter ==
    /\ \A p \in NotMedia :
          /\ p \notin hashed
          /\ p \notin Grouped
          /\ p \notin Range(files)
          /\ p \notin removed \cup failed \cup kept
          /\ p \in DOMAIN others /\ others[p] = Extras[p]
          /\ p \in DOMAIN cache =>
                /\ loaded = "valid"
                /\ p \in DOMAIN TreeCache
                /\ cache[p] = TreeCache[p]
    /\ ScanComplete =>
          \A p \in DOMAIN disk :
              (disk[p].readable \/ IsFresh(cache, p, Info(p))) <=> p \in Grouped
    /\ ScanComplete =>
          \A p \in DOMAIN disk : disk[p].readable => p \in DOMAIN cache

\* C25 is exercised: "b.MP3" and "ba.Wav" are in a set under resolution and
\* a file of the set was removed, with "c.mp4" of the same content and the
\* directory "d.mp3" in the target
C25_Witness ==
    /\ pc = "delete"
    /\ removed # {}
    /\ { <<2>>, <<2, 1>> } \subseteq Range(files)
    /\ NotMedia \subseteq DOMAIN others
    /\ \E p \in DOMAIN disk : disk[p].content = others[<<3>>].content
    /\ todo = {}

\* the number of times p stands in the list of signature s
Occurrences(s, p) ==
    Cardinality({ i \in DOMAIN filesBySig[s] : filesBySig[s][i] = p })

\* C26: after the scan, every media file whose signature resolution
\* succeeded stands exactly once in the signature-to-paths map, under exactly
\* one signature, and the Store holds an entry for the path whose signature
\* is that map key.
C26_ListedOnce ==
    ScanComplete =>
        \A p \in DOMAIN disk :
            Resolvable(p) =>
                \E s \in DOMAIN filesBySig :
                    /\ Occurrences(s, p) = 1
                    /\ \A t \in DOMAIN filesBySig \ {s} : Occurrences(t, p) = 0
                    /\ p \in DOMAIN cache
                    /\ cache[p].Signature = s

\* C26 is exercised: the scan is over, one signature lists two paths, one
\* resolved by hashing and one by its Store entry, and a third path stands
\* under another signature
C26_Witness ==
    /\ ScanComplete
    /\ \E s \in DOMAIN filesBySig :
          /\ Len(filesBySig[s]) >= 2
          /\ Range(filesBySig[s]) \cap hashed # {}
          /\ Range(filesBySig[s]) \ hashed # {}
    /\ Cardinality(DOMAIN filesBySig) >= 2

\* the pruning step drops only entries of missing paths, and a successful
\* save writes the Store as pruning left it
C27_Step ==
    /\ (pc = "prune" /\ pc' = "save") =>
          /\ \A p \in DOMAIN cache :
                Exists(p) => p \in DOMAIN cache' /\ cache'[p] = cache[p]
          /\ \A p \in DOMAIN cache' : p \in DOMAIN cache /\ Exists(p)
    /\ (pc = "save" /\ pc' = "done" /\ saved' = "ok") =>
          /\ cacheFile'.state = "valid"
          /\ cacheFile'.data = cache

\* in the saved Store: the entry of the existing path outside the target,
\* the entry of the file with another extension, and an entry for every
\* file whose removal failed
C27_Saved ==
    (pc = "done" /\ saved = "ok") =>
        /\ \A p \in failed : p \in DOMAIN disk /\ p \in DOMAIN cacheFile.data
        /\ loaded = "valid" =>
              \A p \in { <<3>>, <<5>> } :
                  /\ p \in DOMAIN cacheFile.data
                  /\ cacheFile.data[p] = TreeCache[p]
        /\ \A p \in DOMAIN cacheFile.data : Exists(p)

\* C27: pruning removes only entries whose path does not exist; every entry
\* whose path exists when pruning runs, entries for paths outside the target
\* and of files whose removal failed included, is unchanged in the Store
\* that is saved.
C27_PruneOnlyMissing == [][C27_Step]_vars /\ []C27_Saved

\* C27 is exercised: a run that loaded entries for paths outside the target
\* has removed a file, failed to remove another, pruned the entry of the
\* missing outside path and saved
C27_Witness ==
    /\ pc = "done"
    /\ saved = "ok"
    /\ loaded = "valid"
    /\ removed # {}
    /\ failed # {}
    /\ <<5>> \in DOMAIN cacheFile.data
    /\ <<6>> \notin DOMAIN cacheFile.data

\* C28: whenever LoadCache returns without error the Store is a usable,
\* non-nil mapping, for every content of the cache file, the JSON value
\* null included, so the first UpdateEntry write of the scan cannot fail.
C28_UsableStore ==
    /\ (pc # "idle" /\ loaded # "unopenable") => ~cacheNil
    /\ retErr # "panic: assignment to entry in nil map"

\* C29: every signature a duplicate set is presented under has at least 8
\* characters, for every content of a loaded cache file, entries with an
\* empty or short signature trusted through modTime and size included, so
\* taking the 8-character prefix for display never fails.
C29_PrefixExists ==
    /\ \A i \in DOMAIN sigs : Len(sigs[i]) >= 8
    /\ retErr # "panic: slice bounds out of range"

====
